---- MODULE Spec2Model ----
(***************************************************************************)
(* Model of the affiliate-website generation pipeline (POST /websites):    *)
(* asset sourcing, page analysis, content synthesis, deployment, the quota *)
(* gate and the orchestrating request handler.                             *)
(*                                                                         *)
(* Strings are sequences of atoms.  An atom is a TLA+ string standing for  *)
(* a piece of text that no operation of the program splits: a single       *)
(* character of a title, a markup token such as "<!DOCTYPE", a URL.        *)
(* The JavaScript value undefined/null in a string position is the         *)
(* one-atom sequence Undefined.                                            *)
(***************************************************************************)
EXTENDS Integers, Sequences, FiniteSets, TLC

VARIABLES
    users,        \* the users collection: account id -> [plan, websiteCount]
    websites,     \* the websites collection: sequence of stored records
    netlifySites, \* hosting targets provisioned at the hosting provider
    now,          \* the clock read by Date.now()
    requests,     \* request id -> the state of that POST invocation
    env,          \* process.env: which provider credentials are configured
    answers,      \* how much of what the outside world can answer is explored
    unit          \* one invocation of a component in isolation

vars == <<users, websites, netlifySites, now, requests, env, answers, unit>>

(***************************************************************************)
(* Strings                                                                 *)
(***************************************************************************)
Undefined == <<"undefined">>

Str(c, n) == [i \in 1..n |-> c]

SeqsUpTo(S, n) == UNION {[1..k -> S] : k \in 0..n}

Min(a, b) == IF a < b THEN a ELSE b

\* JavaScript truthiness of a string-or-undefined value.
Truthy(s) == s # Undefined /\ s # <<>>

\* a || b on string-or-undefined values.
Or(a, b) == IF Truthy(a) THEN a ELSE b


\* Mutant of substring: the text is not cut.
substring_Uncut(s, n) == s

\* s.substring(0, n)
substring(s, n) == SubSeq(s, 1, Min(n, Len(s)))

\* The outcome of evaluating a block of code: it returns value or throws;
\* calls lists the network requests it made, in order.
Return(v, c) == [threw |-> FALSE, value |-> v, calls |-> c]

Throw(c) == [threw |-> TRUE, value |-> Undefined, calls |-> c]

(***************************************************************************)
(* Asset Sourcer: getUnsplashImages, generatePlaceholderImages             *)
(***************************************************************************)
PlaceholderUrl == <<"https://images.unsplash.com/photo-1560472354-b33ff0c44a43?w=800&h=600">>

PlaceholderThumb == <<"https://images.unsplash.com/photo-1560472354-b33ff0c44a43?w=400&h=300">>

\* The literal used where an image list has no entry for a slot.
DefaultImageUrl == <<"https://images.unsplash.com/photo-1560472354-b33ff0c44a43">>

generatePlaceholderImages(query, count) ==
    [i \in 1..count |->
        [url |-> PlaceholderUrl, thumb |-> PlaceholderThumb, alt |-> query,
         credit |-> <<"Professional stock photo">>, download_url |-> Undefined]]

\* photo => ({url, thumb, alt, credit, download_url}) of the results.map call.
\* A photo without urls, user or links makes the property access throw.
MapPhoto(photo, query) ==
    [url |-> photo.regular, thumb |-> photo.thumb,
     alt |-> Or(photo.alt_description, query),
     credit |-> <<"Photo by ">> \o photo.userName \o <<" on Unsplash">>,
     download_url |-> photo.download_location]

\* The try block of getUnsplashImages.  key is UNSPLASH_ACCESS_KEY being set,
\* resp the outcome of the search request:
\*   net    "error" when fetch rejects, "ok" when a response arrived
\*   ok     response.ok
\*   json   the body parses as JSON
\*   hasResults  the parsed body has an array results
\*   results     that array
getUnsplashImagesTry(query, count, key, resp) ==
    IF ~key THEN Return(generatePlaceholderImages(query, count), <<>>)
    ELSE IF resp.net = "error" THEN Throw(<<"unsplash.search">>)
    ELSE IF ~resp.ok THEN Throw(<<"unsplash.search">>)
    ELSE IF ~resp.json \/ ~resp.hasResults THEN Throw(<<"unsplash.search">>)
    ELSE IF \E i \in 1..Len(resp.results) : ~resp.results[i].wellformed
         THEN Throw(<<"unsplash.search">>)
    ELSE Return([i \in 1..Len(resp.results) |-> MapPhoto(resp.results[i], query)],
                <<"unsplash.search">>)

getUnsplashImages(query, count, key, resp) ==
    LET t == getUnsplashImagesTry(query, count, key, resp)
    IN  IF t.threw THEN Return(generatePlaceholderImages(query, count), t.calls)
        ELSE t

(***************************************************************************)
(* Page Analyzer: analyzeProductURL                                        *)
(***************************************************************************)
TitleMax == 100

DescriptionMax == 200

PriceMax == 20

AmazingProduct ==
    <<"A", "m", "a", "z", "i", "n", "g", " ", "P", "r", "o", "d", "u", "c", "t">>

GenericDescription ==
    <<"D", "i", "s", "c", "o", "v", "e", "r", " ", "t", "h", "i", "s", " ", "i", "n", "c", "r", "e", "d", "i", "b", "l", "e", " ", "p", "r", "o", "d", "u", "c", "t", " ", "t", "h", "a", "t", " ", "w", "i", "l", "l", " ", "t", "r", "a", "n", "s", "f", "o", "r", "m", " ", "y", "o", "u", "r", " ", "l", "i", "f", "e", ".">>

DefaultPrice == <<"$", "9", "9", ".", "9", "9">>

PremiumProduct ==
    <<"P", "r", "e", "m", "i", "u", "m", " ", "P", "r", "o", "d", "u", "c", "t">>

FallbackDescription ==
    <<"A", "n", " ", "a", "m", "a", "z", "i", "n", "g", " ", "p", "r", "o", "d", "u", "c", "t", " ", "t", "h", "a", "t", " ", "d", "e", "l", "i", "v", "e", "r", "s", " ", "e", "x", "c", "e", "p", "t", "i", "o", "n", "a", "l", " ", "v", "a", "l", "u", "e", " ", "a", "n", "d", " ", "r", "e", "s", "u", "l", "t", "s", ".">>

\* The summary returned from the catch block.
FallbackSummary(url) ==
    [title |-> PremiumProduct, description |-> FallbackDescription,
     price |-> DefaultPrice, originalUrl |-> url]

\* A fetched document is described by what the selectors find in it:
\*   titleTag        $('title').text()
\*   h1              $('h1').first().text()
\*   testidTitle     $('[data-testid="product-title"]').text()
\*   metaDescription $('meta[name="description"]').attr('content')
\*   ogDescription   $('meta[property="og:description"]').attr('content')
\*   firstP          $('p').first().text()
\*   testidPrice     $('[data-testid="price"]').text()
\*   classPrice      $('.price').first().text()
\*   classLikePrice  $('[class*="price"]').first().text()
\* text() is a string (empty when nothing matches), attr() may be undefined.
ExtractTitle(page) ==
    Or(page.titleTag, Or(page.h1, Or(page.testidTitle, AmazingProduct)))

ExtractDescription(page) ==
    Or(page.metaDescription, Or(page.ogDescription, Or(page.firstP, GenericDescription)))

ExtractPrice(page) ==
    Or(page.testidPrice, Or(page.classPrice, Or(page.classLikePrice, DefaultPrice)))

\* The try block.  resp is the outcome of the GET: net "error" when fetch
\* rejects (unreachable host, invalid URL), ok = response.ok, readable = the
\* body could be read by response.text(), page = what the document holds.
analyzeProductURLTry(url, resp) ==
    IF resp.net = "error" THEN Throw(<<"page.get">>)
    ELSE IF ~resp.ok THEN Throw(<<"page.get">>)
    ELSE IF ~resp.readable THEN Throw(<<"page.get">>)
    ELSE Return([title |-> substring(ExtractTitle(resp.page), TitleMax),
                 description |-> substring(ExtractDescription(resp.page), DescriptionMax),
                 price |-> substring(ExtractPrice(resp.page), PriceMax),
                 originalUrl |-> url],
                <<"page.get">>)


\* Mutant of analyzeProductURL: no catch block.
analyzeProductURL_NoCatch(url, resp) == analyzeProductURLTry(url, resp)

analyzeProductURL(url, resp) ==
    LET t == analyzeProductURLTry(url, resp)
    IN  IF t.threw THEN Return(FallbackSummary(url), t.calls) ELSE t

(***************************************************************************)
(* Content Synthesizer: generateWebsiteContent, generateProfessionalTemplate*)
(***************************************************************************)
UpperChars ==
    <<"A", "B", "C", "D", "E", "F", "G", "H", "I", "J", "K", "L", "M", "N", "O", "P", "Q", "R", "S", "T", "U", "V", "W", "X", "Y", "Z">>

LowerChars ==
    <<"a", "b", "c", "d", "e", "f", "g", "h", "i", "j", "k", "l", "m", "n", "o", "p", "q", "r", "s", "t", "u", "v", "w", "x", "y", "z">>

Digits == {"0", "1", "2", "3", "4", "5", "6", "7", "8", "9"}

\* toLowerCase of one atom: upper-case letters and the upper-case markup tokens.
LowerAtom(a) ==
    IF \E i \in 1..Len(UpperChars) : UpperChars[i] = a
    THEN LowerChars[CHOOSE i \in 1..Len(UpperChars) : UpperChars[i] = a]
    ELSE IF a = "<!DOCTYPE" THEN "<!doctype"
    ELSE IF a = "<HTML" THEN "<html"
    ELSE IF a = "</HTML>" THEN "</html>"
    ELSE a

toLowerCase(s) == [i \in 1..Len(s) |-> LowerAtom(s[i])]

\* s.includes(marker) for a marker that is one atom.
includes(s, marker) == \E i \in 1..Len(s) : s[i] = marker

Whitespace == {" ", "\n"}

\* s.trim()
trim(s) ==
    IF \A i \in 1..Len(s) : s[i] \in Whitespace THEN <<>>
    ELSE LET first == CHOOSE i \in 1..Len(s) :
                          s[i] \notin Whitespace /\ \A j \in 1..(i - 1) : s[j] \in Whitespace
             last == CHOOSE i \in 1..Len(s) :
                          s[i] \notin Whitespace /\ \A j \in (i + 1)..Len(s) : s[j] \in Whitespace
         IN  SubSeq(s, first, last)

\* s.replace(/FENCEhtml/g, '').replace(/FENCE/g, ''), where the atom "FENCE"
\* stands for a run of three backquotes
StripFences(s) ==
    LET noHtmlFence == SelectSeq(s, LAMBDA a : a # "FENCEhtml")
    IN  SelectSeq(noHtmlFence, LAMBDA a : a # "FENCE")

\* s.match(/<!DOCTYPE[\s\S]*<\/html>/i): the match, or Undefined when there is none.
MatchDocument(s) ==
    LET low == toLowerCase(s)
        starts == {i \in 1..Len(s) : low[i] = "<!doctype"}
    IN  IF starts = {} THEN Undefined
        ELSE LET first == CHOOSE i \in starts : \A j \in starts : i <= j
                 ends == {i \in (first + 1)..Len(s) : low[i] = "</html>"}
             IN  IF ends = {} THEN Undefined
                 ELSE SubSeq(s, first, CHOOSE i \in ends : \A j \in ends : j <= i)

\* images[i]?.url || '<default image>'  (i counted from 1 here)
ImageUrlOr(images, i) ==
    IF i <= Len(images) THEN Or(images[i].url, DefaultImageUrl) ELSE DefaultImageUrl

\* The fallback page.  Fixed markup between the substituted values is kept as
\* one atom per stretch; the markers "<!DOCTYPE" and "<html" are atoms of their own.
generateProfessionalTemplate(productInfo, heroImages, featureImages, testimonialImages) ==
    <<"<!DOCTYPE", " html>", "<html", " lang=en>", "<head><title>">>
    \o productInfo.title
    \o <<" - Professional Affiliate Website</title><style/></head><body><section class=hero><h1>">>
    \o productInfo.title
    \o <<"</h1><p>">>
    \o productInfo.description
    \o <<"</p><a href=">>
    \o productInfo.originalUrl
    \o <<" class=cta-button>Get ">>
    \o productInfo.title
    \o <<" Now - ">>
    \o productInfo.price
    \o <<"</a></section><section class=features><h2>Why Choose ">>
    \o productInfo.title
    \o <<"?</h2><div class=feature><img src=">>
    \o ImageUrlOr(featureImages, 1)
    \o <<" alt=Premium Quality><p>Experience the highest quality standards with ">>
    \o productInfo.title
    \o <<".</p></div><div class=feature><img src=">>
    \o ImageUrlOr(featureImages, 2)
    \o <<" alt=Amazing Value><p>Get incredible value for your money. ">>
    \o productInfo.title
    \o <<" delivers.</p></div></section><section class=testimonials><img src=">>
    \o ImageUrlOr(testimonialImages, 1)
    \o <<" alt=Happy Customer><p>">>
    \o productInfo.title
    \o <<" has completely transformed my experience.</p><a href=">>
    \o productInfo.originalUrl
    \o <<" class=cta-button>Order ">>
    \o productInfo.title
    \o <<" Today - ">>
    \o productInfo.price
    \o <<"</a></section></body>", "</html>">>


\* Mutant of generateWebsiteContentTry: the cleaned text is returned unvalidated.
generateWebsiteContentTry_Unvalidated(productInfo, heroImages, featureImages, testimonialImages, gen) ==
    IF ~gen.ok \/ ~gen.hasText THEN Throw(<<"gemini.generateContent">>)
    ELSE Return(trim(StripFences(gen.text)), <<"gemini.generateContent">>)

\* The try block around the model call.  gen is the outcome of the call:
\*   ok      generateContent resolved (false: network error, quota, bad key)
\*   hasText response.text() returned a string (false: it throws, e.g. blocked)
\*   text    that string
generateWebsiteContentTry(productInfo, heroImages, featureImages, testimonialImages, gen) ==
    IF ~gen.ok \/ ~gen.hasText THEN Throw(<<"gemini.generateContent">>)
    ELSE LET cleaned == trim(StripFences(gen.text))
             low == toLowerCase(cleaned)
         IN  IF ~includes(low, "<!doctype") /\ ~includes(low, "<html")
             THEN IF MatchDocument(cleaned) # Undefined
                  THEN Return(MatchDocument(cleaned), <<"gemini.generateContent">>)
                  ELSE Return(generateProfessionalTemplate(productInfo, heroImages,
                                  featureImages, testimonialImages),
                              <<"gemini.generateContent">>)
             ELSE Return(cleaned, <<"gemini.generateContent">>)

\* img holds the provider state met by the three image requests: key, and the
\* responses hero, feature, testimonial.
generateWebsiteContent(productInfo, img, gen) ==
    LET hero == getUnsplashImages(productInfo.title \o <<" product lifestyle">>, 1,
                                  img.key, img.hero)
        feature == getUnsplashImages(productInfo.title \o <<" benefits features">>, 2,
                                     img.key, img.feature)
        testimonial == getUnsplashImages(<<"happy customer testimonial">>, 1,
                                         img.key, img.testimonial)
        imageCalls == hero.calls \o feature.calls \o testimonial.calls
        t == generateWebsiteContentTry(productInfo, hero.value, feature.value,
                                       testimonial.value, gen)
    IN  IF hero.threw \/ feature.threw \/ testimonial.threw THEN Throw(imageCalls)
        ELSE IF t.threw
        THEN Return(generateProfessionalTemplate(productInfo, hero.value, feature.value,
                                                 testimonial.value),
                    imageCalls \o t.calls)
        ELSE Return(t.value, imageCalls \o t.calls)

(***************************************************************************)
(* Deployment Publisher: deployToNetlify                                   *)
(***************************************************************************)
NoDeployment == [present |-> FALSE]

\* createZipFromHTML: the document itself, as a buffer.
createZipFromHTML(html) == html

\* Mutant of deployToNetlifyTry: the content is pushed whatever the provisioning answered.
deployToNetlifyTry_PushAnyway(websiteHTML, siteName, token, site, deploy) ==
    IF ~token THEN Return(NoDeployment, <<>>)
    ELSE IF site.net = "error" \/ ~site.ok \/ ~site.json
            \/ deploy.net = "error" \/ ~deploy.ok \/ ~deploy.json
    THEN Throw(<<"netlify.createSite", "netlify.deploy">>)
    ELSE Return([present |-> TRUE,
                 url |-> Or(site.data.ssl_url, site.data.url),
                 deploy_id |-> deploy.data.id,
                 site_id |-> site.data.id,
                 admin_url |-> site.data.admin_url],
                <<"netlify.createSite", "netlify.deploy">>)

\* The try block.  `token` is NETLIFY_ACCESS_TOKEN being set; `site` and
\* `deploy` are the outcomes of the two requests: net, ok, json as for the
\* other providers, data = the parsed body (fields may be undefined).
deployToNetlifyTry(websiteHTML, siteName, token, site, deploy) ==
    IF ~token THEN Return(NoDeployment, <<>>)
    ELSE IF site.net = "error" \/ ~site.ok \/ ~site.json
    THEN Throw(<<"netlify.createSite">>)
    ELSE IF deploy.net = "error" \/ ~deploy.ok \/ ~deploy.json
    THEN Throw(<<"netlify.createSite", "netlify.deploy">>)
    ELSE Return([present |-> TRUE,
                 url |-> Or(site.data.ssl_url, site.data.url),
                 deploy_id |-> deploy.data.id,
                 site_id |-> site.data.id,
                 admin_url |-> site.data.admin_url],
                <<"netlify.createSite", "netlify.deploy">>)


\* Mutant of deployToNetlify: no catch block.
deployToNetlify_NoCatch(websiteHTML, siteName, token, site, deploy) ==
    deployToNetlifyTry(websiteHTML, siteName, token, site, deploy)

deployToNetlify(websiteHTML, siteName, token, site, deploy) ==
    LET t == deployToNetlifyTry(websiteHTML, siteName, token, site, deploy)
    IN  IF t.threw THEN Return(NoDeployment, t.calls) ELSE t

(***************************************************************************)
(* Quota Gate: getPlanLimits and the check in POST                         *)
(***************************************************************************)
BasicWebsites == 3

ProWebsites == 10

EnterpriseWebsites == 999

DefaultWebsites == 3

getPlanLimits(plan) ==
    CASE plan = "basic" -> [websites |-> BasicWebsites]
      [] plan = "pro" -> [websites |-> ProWebsites]
      [] plan = "enterprise" -> [websites |-> EnterpriseWebsites]
      [] OTHER -> [websites |-> DefaultWebsites]

\* A user document without the field websiteCount holds Missing there.
Missing == -1

\* user.websiteCount || 0
currentWebsiteCount(user) ==
    IF user.websiteCount = Missing \/ user.websiteCount = 0 THEN 0 ELSE user.websiteCount


\* Mutant of LimitReached: the comparison is strict.
LimitReached_Strict(user) == currentWebsiteCount(user) > getPlanLimits(user.plan).websites

\* The condition under which POST answers 403.
LimitReached(user) == currentWebsiteCount(user) >= getPlanLimits(user.plan).websites

(***************************************************************************)
(* What the outside world can answer                                       *)
(***************************************************************************)
\* A search result of the image provider; alt_description may be null.
Photo(n, alt) ==
    [wellformed |-> TRUE, regular |-> <<"https://images.unsplash.com/regular-" \o n>>,
     thumb |-> <<"https://images.unsplash.com/thumb-" \o n>>,
     alt_description |-> alt, userName |-> <<"Ann">>,
     download_location |-> <<"https://api.unsplash.com/download-" \o n>>]

\* A result lacking urls, user or links.
BrokenPhoto ==
    [wellformed |-> FALSE, regular |-> Undefined, thumb |-> Undefined,
     alt_description |-> Undefined, userName |-> Undefined,
     download_location |-> Undefined]

ImageNetworkError ==
    [net |-> "error", ok |-> FALSE, json |-> FALSE, hasResults |-> FALSE, results |-> <<>>]

ImageStatusError ==
    [net |-> "ok", ok |-> FALSE, json |-> TRUE, hasResults |-> FALSE, results |-> <<>>]

ImageNotJson ==
    [net |-> "ok", ok |-> TRUE, json |-> FALSE, hasResults |-> FALSE, results |-> <<>>]

ImageNoResults ==
    [net |-> "ok", ok |-> TRUE, json |-> TRUE, hasResults |-> FALSE, results |-> <<>>]

ImageResults(photos) ==
    [net |-> "ok", ok |-> TRUE, json |-> TRUE, hasResults |-> TRUE, results |-> photos]

EmptyPage ==
    [titleTag |-> <<>>, h1 |-> <<>>, testidTitle |-> <<>>,
     metaDescription |-> Undefined, ogDescription |-> Undefined, firstP |-> <<>>,
     testidPrice |-> <<>>, classPrice |-> <<>>, classLikePrice |-> <<>>]

\* <title>Widget Pro</title> and nothing else.
WidgetPage == [EmptyPage EXCEPT !.titleTag = <<"W", "i", "d", "g", "e", "t", " ", "P", "r", "o">>]

PageNetworkError == [net |-> "error", ok |-> FALSE, readable |-> FALSE, page |-> EmptyPage]

PageStatusError == [net |-> "ok", ok |-> FALSE, readable |-> TRUE, page |-> EmptyPage]

PageUnreadable == [net |-> "ok", ok |-> TRUE, readable |-> FALSE, page |-> EmptyPage]

PageOk(page) == [net |-> "ok", ok |-> TRUE, readable |-> TRUE, page |-> page]

GenFailure == [ok |-> FALSE, hasText |-> FALSE, text |-> <<>>]

GenNoText == [ok |-> TRUE, hasText |-> FALSE, text |-> <<>>]

GenText(text) == [ok |-> TRUE, hasText |-> TRUE, text |-> text]

NoSiteData ==
    [id |-> Undefined, ssl_url |-> Undefined, url |-> Undefined, admin_url |-> Undefined]

FullSiteData ==
    [id |-> <<"site-1">>, ssl_url |-> <<"https://site-1.netlify.app">>,
     url |-> <<"http://site-1.netlify.app">>,
     admin_url |-> <<"https://app.netlify.com/sites/site-1">>]

NetlifyNetworkError == [net |-> "error", ok |-> FALSE, json |-> FALSE, data |-> NoSiteData]

NetlifyStatusError == [net |-> "ok", ok |-> FALSE, json |-> TRUE, data |-> NoSiteData]

NetlifyNotJson == [net |-> "ok", ok |-> TRUE, json |-> FALSE, data |-> NoSiteData]

NetlifyOk(data) == [net |-> "ok", ok |-> TRUE, json |-> TRUE, data |-> data]

\* The answers a request can meet.  With answers = "all" every kind of answer
\* of every collaborator is explored; with answers = "few" the providers answer
\* with success, a page is reachable or not, and the database may fail, which
\* keeps several requests in flight tractable.
AuthOutcomes ==
    IF answers = "all"
    THEN [token : BOOLEAN, dbOk : BOOLEAN, account : {"u1", "u2", "none"}]
    ELSE {[token |-> FALSE, dbOk |-> TRUE, account |-> "none"],
          [token |-> TRUE, dbOk |-> TRUE, account |-> "u1"]}

ProductUrls == {Undefined, <<>>, <<"https://example.com/product">>}

Bodies ==
    IF answers = "all" THEN [parses : BOOLEAN, productUrl : ProductUrls]
    ELSE {[parses |-> TRUE, productUrl |-> <<"https://example.com/product">>]}

PipelinePages ==
    IF answers = "all"
    THEN {PageNetworkError, PageStatusError, PageUnreadable, PageOk(WidgetPage),
          PageOk(EmptyPage)}
    ELSE {PageStatusError, PageOk(WidgetPage)}

\* `slot` tells the photos found for one page section from those of another.
PipelineImageResponses(slot, n) ==
    LET found == ImageResults([i \in 1..n |-> Photo(slot \o ToString(i), Undefined)])
    IN  IF answers = "all"
        THEN {ImageNetworkError, ImageNoResults, ImageResults(<<>>), found}
        ELSE {found}

PipelineGen ==
    IF answers = "all"
    THEN {GenFailure, GenNoText, GenText(<<>>), GenText(<<"Sure!">>),
          GenText(<<"FENCEhtml", "<!DOCTYPE", " html>", "<html", "</html>", "FENCE">>)}
    ELSE {GenFailure}

PipelineSites ==
    IF answers = "all"
    THEN {NetlifyNetworkError, NetlifyStatusError, NetlifyNotJson,
          NetlifyOk(FullSiteData), NetlifyOk(NoSiteData)}
    ELSE {NetlifyOk(FullSiteData)}

PipelineDeploys ==
    IF answers = "all"
    THEN {NetlifyNetworkError, NetlifyStatusError, NetlifyNotJson,
          NetlifyOk([NoSiteData EXCEPT !.id = <<"deploy-1">>])}
    ELSE {NetlifyOk([NoSiteData EXCEPT !.id = <<"deploy-1">>])}

(***************************************************************************)
(* Pipeline Orchestrator: POST                                             *)
(***************************************************************************)
NumRequests == 2

MaxClock == 1

Requests == 1..NumRequests

Accounts == {"u1", "u2"}

NoUser == [id |-> "none", plan |-> "none", websiteCount |-> Missing]

NoInfo ==
    [title |-> Undefined, description |-> Undefined, price |-> Undefined,
     originalUrl |-> Undefined]

NoResponse == [status |-> 0]

\* process.env.NEXT_PUBLIC_APP_URL || 'https://affilify.eu'
AppUrl == <<"https://affilify.eu">>

\* title.toLowerCase().replace(/[^a-z0-9]/g, '-') + '-' + Date.now()
Slug(title, t) ==
    LET low == toLowerCase(title)
        alnum == {LowerChars[i] : i \in 1..Len(LowerChars)} \cup Digits
    IN  [i \in 1..Len(low) |-> IF low[i] \in alnum THEN low[i] ELSE "-"]
        \o <<"-", ToString(t)>>


\* Mutant of DeploymentUrlOr: the deployment is ignored.
DeploymentUrlOr_Ignored(d, fallback) == fallback

\* netlifyDeployment?.url || fallback
DeploymentUrlOr(d, fallback) == IF d.present THEN Or(d.url, fallback) ELSE fallback

\* netlifyDeployment?.admin_url || null
DeploymentAdminUrlOr(d, fallback) == IF d.present THEN Or(d.admin_url, fallback) ELSE fallback

\* Mutant of WebsiteData: the record is born with a view.
WebsiteData_Viewed(r, req) ==
    [id |-> r, userId |-> req.user.id, slug |-> req.slug,
     title |-> req.productInfo.title, description |-> req.productInfo.description,
     productUrl |-> req.productUrl, html |-> req.websiteHTML,
     productInfo |-> req.productInfo, netlifyDeployment |-> req.netlifyDeployment,
     views |-> 1, clicks |-> 0, isActive |-> TRUE]

\* The document handed to insertOne.
WebsiteData(r, req) ==
    [id |-> r, userId |-> req.user.id, slug |-> req.slug,
     title |-> req.productInfo.title, description |-> req.productInfo.description,
     productUrl |-> req.productUrl, html |-> req.websiteHTML,
     productInfo |-> req.productInfo, netlifyDeployment |-> req.netlifyDeployment,
     views |-> 0, clicks |-> 0, isActive |-> TRUE]

Unauthorized == [status |-> 401, error |-> "Authentication required"]

BadRequest == [status |-> 400, error |-> "Product URL is required"]

LimitResponse(user) ==
    [status |-> 403, error |-> "Website limit reached",
     currentCount |-> currentWebsiteCount(user),
     limit |-> getPlanLimits(user.plan).websites]

\* The response of the catch block of POST.
InternalError == [status |-> 500, error |-> "Failed to create website"]

\* Mutant of SuccessResponse: the website just created is not counted.
SuccessResponse_Uncounted(r, req) ==
    [status |-> 200, success |-> TRUE,
     website |->
        [id |-> r, slug |-> req.slug, title |-> req.productInfo.title,
         description |-> req.productInfo.description,
         url |-> DeploymentUrlOr(req.netlifyDeployment,
                                 AppUrl \o <<"/websites/">> \o req.slug),
         previewUrl |-> AppUrl \o <<"/preview/">> \o req.slug,
         netlifyUrl |-> DeploymentUrlOr(req.netlifyDeployment, Undefined),
         adminUrl |-> DeploymentAdminUrlOr(req.netlifyDeployment, Undefined)],
     remainingWebsites |->
        getPlanLimits(req.user.plan).websites - currentWebsiteCount(req.user),
     deployment |->
        [status |-> IF req.netlifyDeployment.present THEN "deployed" ELSE "local",
         platform |-> IF req.netlifyDeployment.present THEN "netlify" ELSE "affilify"]]

\* The 200 response of POST.
SuccessResponse(r, req) ==
    [status |-> 200, success |-> TRUE,
     website |->
        [id |-> r, slug |-> req.slug, title |-> req.productInfo.title,
         description |-> req.productInfo.description,
         url |-> DeploymentUrlOr(req.netlifyDeployment,
                                 AppUrl \o <<"/websites/">> \o req.slug),
         previewUrl |-> AppUrl \o <<"/preview/">> \o req.slug,
         netlifyUrl |-> DeploymentUrlOr(req.netlifyDeployment, Undefined),
         adminUrl |-> DeploymentAdminUrlOr(req.netlifyDeployment, Undefined)],
     remainingWebsites |->
        getPlanLimits(req.user.plan).websites - currentWebsiteCount(req.user) - 1,
     deployment |->
        [status |-> IF req.netlifyDeployment.present THEN "deployed" ELSE "local",
         platform |-> IF req.netlifyDeployment.present THEN "netlify" ELSE "affilify"]]

InitRequest ==
    [pc |-> "start", user |-> NoUser, productUrl |-> Undefined, productInfo |-> NoInfo,
     websiteHTML |-> Undefined, slug |-> Undefined, netlifyDeployment |-> NoDeployment,
     response |-> NoResponse, calls |-> <<>>, logged |-> "none"]

\* return NextResponse.json(...): the invocation is over; the account and the
\* productUrl it read and the requests it made stay on record, its other
\* locals are gone.
Respond(r, response, calls) ==
    requests' = [requests EXCEPT
                    ![r] = [InitRequest EXCEPT !.pc = "done",
                                               !.user = requests[r].user,
                                               !.productUrl = requests[r].productUrl,
                                               !.response = response,
                                               !.calls = requests[r].calls \o calls]]

\* The catch block of POST: console.error(..., error) and the 500 answer.
\* `error` names the call that threw.
Catch(r, error, calls) ==
    requests' = [requests EXCEPT
                    ![r] = [InitRequest EXCEPT !.pc = "done",
                                               !.user = requests[r].user,
                                               !.productUrl = requests[r].productUrl,
                                               !.response = InternalError,
                                               !.calls = requests[r].calls \o calls,
                                               !.logged = error]]

\* verifyUser and the 401 answer.  `auth` is what the request and the users
\* collection hold: token (the cookie is present), dbOk (connect and findOne
\* succeed), account (the account the token belongs to, "none" if no user has it).
VerifyUser(r) ==
    /\ requests[r].pc = "start"
    /\ \E auth \in AuthOutcomes :
          LET dbCalls == IF auth.token THEN <<"db.users.findOne">> ELSE <<>>
              found == auth.token /\ auth.dbOk /\ auth.account \in Accounts
          IN  IF found
              THEN requests' = [requests EXCEPT
                       ![r].pc = "body",
                       ![r].user = [id |-> auth.account,
                                    plan |-> users[auth.account].plan,
                                    websiteCount |-> users[auth.account].websiteCount],
                       ![r].calls = requests[r].calls \o dbCalls]
              ELSE Respond(r, Unauthorized, dbCalls)
    /\ UNCHANGED <<users, websites, netlifySites, now, env, answers, unit>>


\* A return after const { productUrl } = await request.json(): the local
\* productUrl holds what the body gave.
RespondToBody(r, productUrl, response, calls) ==
    requests' = [requests EXCEPT
                    ![r] = [InitRequest EXCEPT !.pc = "done",
                                               !.user = requests[r].user,
                                               !.productUrl = productUrl,
                                               !.response = response,
                                               !.calls = requests[r].calls \o calls]]

\* Mutant of ReadBody: the plan limit is checked before the productUrl.
ReadBody_QuotaFirst(r) ==
    /\ requests[r].pc = "body"
    /\ \E body \in Bodies :
          IF ~body.parses THEN Catch(r, "request.json", <<>>)
          ELSE IF LimitReached(requests[r].user)
          THEN RespondToBody(r, body.productUrl, LimitResponse(requests[r].user), <<>>)
          ELSE IF ~Truthy(body.productUrl)
          THEN RespondToBody(r, body.productUrl, BadRequest, <<>>)
          ELSE requests' = [requests EXCEPT ![r].pc = "analyzing",
                                            ![r].productUrl = body.productUrl]
    /\ UNCHANGED <<users, websites, netlifySites, now, env, answers, unit>>

\* Mutant of ReadBody: the plan limit is checked after the page was fetched.
ReadBody_LateGate(r) ==
    /\ requests[r].pc = "body"
    /\ \E body \in Bodies :
          IF ~body.parses THEN Catch(r, "request.json", <<>>)
          ELSE IF ~Truthy(body.productUrl) THEN RespondToBody(r, body.productUrl, BadRequest, <<>>)
          ELSE IF LimitReached(requests[r].user)
          THEN RespondToBody(r, body.productUrl, LimitResponse(requests[r].user),
                             <<"page.get">>)
          ELSE requests' = [requests EXCEPT ![r].pc = "analyzing",
                                            ![r].productUrl = body.productUrl]
    /\ UNCHANGED <<users, websites, netlifySites, now, env, answers, unit>>

\* request.json(), the productUrl check and the plan-limit check.
\* `body` is the request body: parses (it is JSON holding an object) and productUrl.
ReadBody(r) ==
    /\ requests[r].pc = "body"
    /\ \E body \in Bodies :
          IF ~body.parses THEN Catch(r, "request.json", <<>>)
          ELSE IF ~Truthy(body.productUrl) THEN RespondToBody(r, body.productUrl, BadRequest, <<>>)
          ELSE IF LimitReached(requests[r].user)
          THEN RespondToBody(r, body.productUrl, LimitResponse(requests[r].user), <<>>)
          ELSE requests' = [requests EXCEPT ![r].pc = "analyzing",
                                            ![r].productUrl = body.productUrl]
    /\ UNCHANGED <<users, websites, netlifySites, now, env, answers, unit>>

\* Mutant of Analyze: a page that cannot be fetched sends the request back to its start.
Analyze_Requeue(r) ==
    /\ requests[r].pc = "analyzing"
    /\ \E resp \in PipelinePages :
          LET res == analyzeProductURL(requests[r].productUrl, resp)
          IN  IF resp.net = "error" \/ ~resp.ok
              THEN requests' = [requests EXCEPT ![r] = InitRequest]
              ELSE requests' = [requests EXCEPT ![r].pc = "synthesizing",
                                                ![r].productInfo = res.value,
                                                ![r].calls = requests[r].calls \o res.calls]
    /\ UNCHANGED <<users, websites, netlifySites, now, env, answers, unit>>

\* const productInfo = await analyzeProductURL(productUrl)
Analyze(r) ==
    /\ requests[r].pc = "analyzing"
    /\ \E resp \in PipelinePages :
          LET res == analyzeProductURL(requests[r].productUrl, resp)
          IN  IF res.threw THEN Catch(r, "analyzeProductURL", res.calls)
              ELSE requests' = [requests EXCEPT ![r].pc = "synthesizing",
                                                ![r].productInfo = res.value,
                                                ![r].calls = requests[r].calls \o res.calls]
    /\ UNCHANGED <<users, websites, netlifySites, now, env, answers, unit>>

\* const websiteHTML = await generateWebsiteContent(productInfo)
Synthesize(r) ==
    /\ requests[r].pc = "synthesizing"
    /\ \E hero \in PipelineImageResponses("hero", 1),
          feature \in PipelineImageResponses("feature", 2),
          testimonial \in PipelineImageResponses("testimonial", 1), gen \in PipelineGen :
          LET img == [key |-> env.unsplash, hero |-> hero, feature |-> feature,
                      testimonial |-> testimonial]
              res == generateWebsiteContent(requests[r].productInfo, img, gen)
          IN  IF res.threw THEN Catch(r, "generateWebsiteContent", res.calls)
              ELSE requests' = [requests EXCEPT ![r].pc = "deploying",
                                                ![r].websiteHTML = res.value,
                                                ![r].calls = requests[r].calls \o res.calls]
    /\ UNCHANGED <<users, websites, netlifySites, now, env, answers, unit>>

\* Mutant of Deploy: a deployment that failed is attempted a second time.
Deploy_Retry(r) ==
    /\ requests[r].pc = "deploying"
    /\ \E t \in now..MaxClock, site \in PipelineSites, deploy \in PipelineDeploys :
          LET slug == Slug(requests[r].productInfo.title, t)
              res == deployToNetlify(requests[r].websiteHTML, slug, env.netlify, site, deploy)
              provisioned == res.calls # <<>> /\ site.net = "ok" /\ site.ok
          IN  /\ now' = t
              /\ netlifySites' = IF provisioned THEN Append(netlifySites, slug)
                                 ELSE netlifySites
              /\ IF res.threw THEN Catch(r, "deployToNetlify", res.calls)
                 ELSE requests' = [requests EXCEPT
                          ![r].pc = "persisting",
                          ![r].slug = slug,
                          ![r].netlifyDeployment = res.value,
                          ![r].calls = requests[r].calls \o res.calls
                                          \o (IF res.value.present THEN <<>> ELSE res.calls)]
    /\ UNCHANGED <<users, websites, env, answers, unit>>

\* The slug and deployToNetlify(websiteHTML, slug).  Date.now() returns the
\* clock, which has not gone back since it was last read.  A provisioning
\* request answered with success has created the hosting target.
Deploy(r) ==
    /\ requests[r].pc = "deploying"
    /\ \E t \in now..MaxClock, site \in PipelineSites, deploy \in PipelineDeploys :
          LET slug == Slug(requests[r].productInfo.title, t)
              res == deployToNetlify(requests[r].websiteHTML, slug, env.netlify, site, deploy)
              provisioned == res.calls # <<>> /\ site.net = "ok" /\ site.ok
          IN  /\ now' = t
              /\ netlifySites' = IF provisioned THEN Append(netlifySites, slug)
                                 ELSE netlifySites
              /\ IF res.threw THEN Catch(r, "deployToNetlify", res.calls)
                 ELSE requests' = [requests EXCEPT
                          ![r].pc = "persisting",
                          ![r].slug = slug,
                          ![r].netlifyDeployment = res.value,
                          ![r].calls = requests[r].calls \o res.calls]
    /\ UNCHANGED <<users, websites, env, answers, unit>>

\* connectToDatabase() and insertOne(websiteData).  `db` is the outcome of the two.
Persist(r) ==
    /\ requests[r].pc = "persisting"
    /\ \E db \in [connects : BOOLEAN, inserts : BOOLEAN] :
          IF ~db.connects
          THEN /\ Catch(r, "connectToDatabase", <<>>)
               /\ UNCHANGED websites
          ELSE IF ~db.inserts
          THEN /\ Catch(r, "insertOne", <<"db.websites.insertOne">>)
               /\ UNCHANGED websites
          ELSE /\ websites' = Append(websites, WebsiteData(r, requests[r]))
               /\ requests' = [requests EXCEPT
                      ![r].pc = "counting",
                      ![r].calls = requests[r].calls \o <<"db.websites.insertOne">>]
    /\ UNCHANGED <<users, netlifySites, now, env, answers, unit>>

\* Mutant of Inc: the counter goes up by two.
Inc_Twice(user) ==
    [user EXCEPT !.websiteCount = IF @ = Missing THEN 2 ELSE @ + 2]

\* { $inc: { websiteCount: 1 } } on a document: a missing field counts from 0.
Inc(user) ==
    [user EXCEPT !.websiteCount = IF @ = Missing THEN 1 ELSE @ + 1]

\* Mutant of Count: the counter is written back from the value read at admission.
Count_WriteBack(r) ==
    /\ requests[r].pc = "counting"
    /\ \E updates \in BOOLEAN :
          IF ~updates
          THEN /\ Catch(r, "updateOne", <<"db.users.updateOne">>)
               /\ UNCHANGED users
          ELSE /\ users' = [users EXCEPT ![requests[r].user.id].websiteCount =
                                            currentWebsiteCount(requests[r].user) + 1]
               /\ Respond(r, SuccessResponse(r, requests[r]), <<"db.users.updateOne">>)
    /\ UNCHANGED <<websites, netlifySites, now, env, answers, unit>>

\* updateOne({ _id: user._id }, { $inc: { websiteCount: 1 } }) and the 200 answer.
Count(r) ==
    /\ requests[r].pc = "counting"
    /\ \E updates \in BOOLEAN :
          IF ~updates
          THEN /\ Catch(r, "updateOne", <<"db.users.updateOne">>)
               /\ UNCHANGED users
          ELSE /\ users' = [users EXCEPT ![requests[r].user.id] = Inc(@)]
               /\ Respond(r, SuccessResponse(r, requests[r]), <<"db.users.updateOne">>)
    /\ UNCHANGED <<websites, netlifySites, now, env, answers, unit>>

POST(r) ==
    \/ VerifyUser(r)
    \/ ReadBody(r)
    \/ Analyze(r)
    \/ Synthesize(r)
    \/ Deploy(r)
    \/ Persist(r)
    \/ Count(r)

Plans == {"basic", "pro", "enterprise", "free"}

\* The usage an account starts with: none recorded, or up to two below its ceiling.
InitialCounts(plan) ==
    {Missing} \cup {n \in 0..getPlanLimits(plan).websites :
                        n >= getPlanLimits(plan).websites - 2}

NoUnit == [fn |-> "none"]

InitStores(accounts) ==
    /\ users \in {[a \in Accounts |-> IF a = "u1" THEN u1
                                      ELSE [plan |-> "basic", websiteCount |-> Missing]] :
                     u1 \in accounts}
    /\ websites = <<>>
    /\ netlifySites = <<>>
    /\ now = 0
    /\ unit = NoUnit

\* Several requests in flight at once, on an account near its ceiling.
Init ==
    /\ InitStores({[plan |-> "basic", websiteCount |-> Missing],
                   [plan |-> "basic", websiteCount |-> BasicWebsites - 1],
                   [plan |-> "basic", websiteCount |-> BasicWebsites],
                   [plan |-> "pro", websiteCount |-> ProWebsites - 1]})
    /\ requests = [r \in Requests |-> InitRequest]
    /\ env = [unsplash |-> TRUE, netlify |-> TRUE]
    /\ answers = "few"

\* One request, meeting every answer, on an account of any plan.
InitRequestAlone ==
    /\ InitStores(UNION {{[plan |-> plan, websiteCount |-> n] :
                              n \in InitialCounts(plan) \cup {0}} : plan \in Plans})
    /\ requests = [r \in Requests |-> IF r = 1 THEN InitRequest
                                      ELSE [InitRequest EXCEPT !.pc = "unused"]]
    /\ env \in [unsplash : BOOLEAN, netlify : BOOLEAN]
    /\ answers = "all"

Next == \E r \in Requests : POST(r)

Spec == Init /\ [][Next]_vars

SpecRequest == InitRequestAlone /\ [][Next]_vars

\* Every await of the handler settles (the call returns or fails), and the
\* runtime then resumes the handler: a request that can take a step takes it.
SpecRequestLive == SpecRequest /\ \A r \in Requests : WF_vars(POST(r))

(***************************************************************************)
(* The components in isolation: one invocation on inputs drawn from        *)
(* bounded sets.  The stores and requests of the pipeline stay parked.     *)
(***************************************************************************)
MaxCount == 3

MaxResults == 3

MaxTextLen == 3

Parked ==
    /\ users = [a \in Accounts |-> [plan |-> "basic", websiteCount |-> Missing]]
    /\ websites = <<>>
    /\ netlifySites = <<>>
    /\ now = 0
    /\ requests = [r \in Requests |-> [InitRequest EXCEPT !.pc = "unused"]]
    /\ env = [unsplash |-> FALSE, netlify |-> FALSE]
    /\ answers = "all"

StayParked == UNCHANGED <<users, websites, netlifySites, now, requests, env, answers>>

Pending == [threw |-> FALSE, value |-> Undefined, calls |-> <<>>]

Invocations(fn, inputs) ==
    {[fn |-> fn, args |-> a, done |-> FALSE, ret |-> Pending] : a \in inputs}

\* getUnsplashImages
Photos == {Photo("1", Undefined), Photo("2", <<"a", "l", "t">>), BrokenPhoto}

ImageResponses ==
    {ImageNetworkError, ImageStatusError, ImageNotJson, ImageNoResults}
    \cup {ImageResults(ps) : ps \in SeqsUpTo(Photos, MaxResults)}

ImageInputs ==
    [query : {<<"happy customer testimonial">>, <<"W", " product lifestyle">>},
     count : 1..MaxCount, key : BOOLEAN, resp : ImageResponses]

InitImages == Parked /\ unit \in Invocations("getUnsplashImages", ImageInputs)

CallImages ==
    /\ unit.fn = "getUnsplashImages" /\ ~unit.done
    /\ unit' = [unit EXCEPT !.done = TRUE,
                            !.ret = getUnsplashImages(unit.args.query, unit.args.count,
                                                      unit.args.key, unit.args.resp)]
    /\ StayParked

SpecImages == InitImages /\ [][CallImages]_vars

\* analyzeProductURL
TextsOf(c, max) == {<<>>, Str(c, 2), Str(c, max + 1)}

AnalyzePages ==
    [titleTag : TextsOf("T", TitleMax), h1 : TextsOf("H", TitleMax),
     testidTitle : TextsOf("D", TitleMax),
     metaDescription : {Undefined, <<>>, Str("m", DescriptionMax + 1)},
     ogDescription : {Undefined, Str("o", 2)},
     firstP : {<<>>, Str("p", DescriptionMax + 1)},
     testidPrice : {<<>>, Str("$", PriceMax + 1)},
     classPrice : {<<>>, Str("9", 2)},
     classLikePrice : {<<>>, Str("8", 2)}]

AnalyzeInputs ==
    [url : {<<"https://example.com/product">>, <<"https://unreachable.invalid/">>},
     resp : {PageNetworkError, PageStatusError, PageUnreadable}
            \cup {PageOk(page) : page \in AnalyzePages}]

InitAnalyze == Parked /\ unit \in Invocations("analyzeProductURL", AnalyzeInputs)

CallAnalyze ==
    /\ unit.fn = "analyzeProductURL" /\ ~unit.done
    /\ unit' = [unit EXCEPT !.done = TRUE,
                            !.ret = analyzeProductURL(unit.args.url, unit.args.resp)]
    /\ StayParked

SpecAnalyze == InitAnalyze /\ [][CallAnalyze]_vars

\* generateWebsiteContent
TextAtoms ==
    {"Sure!", " ", "FENCEhtml", "FENCE", "<!DOCTYPE", "<!doctype", "<html", "</html>"}

WidgetSummary ==
    [title |-> <<"W", "i", "d", "g", "e", "t", " ", "P", "r", "o">>,
     description |-> GenericDescription, price |-> DefaultPrice,
     originalUrl |-> <<"https://example.com/product">>]

SynthImages ==
    [key : BOOLEAN,
     hero : {ImageStatusError, ImageResults(<<Photo("h", Undefined)>>)},
     feature : {ImageStatusError, ImageResults(<<>>), ImageResults(<<Photo("f1", Undefined)>>),
                ImageResults(<<Photo("f1", Undefined), Photo("f2", Undefined)>>)},
     testimonial : {ImageNetworkError, ImageResults(<<>>), ImageResults(<<Photo("t", Undefined)>>)}]

ProviderUp ==
    [key |-> TRUE, hero |-> ImageResults(<<Photo("h", Undefined)>>),
     feature |-> ImageResults(<<Photo("f1", Undefined), Photo("f2", Undefined)>>),
     testimonial |-> ImageResults(<<Photo("t", Undefined)>>)]

\* Every model text against one provider state, and every provider state
\* against a failing model and a model answering with prose.
SynthInputs ==
    [productInfo : {WidgetSummary}, img : {ProviderUp},
     gen : {GenFailure, GenNoText} \cup {GenText(t) : t \in SeqsUpTo(TextAtoms, MaxTextLen)}]
    \cup [productInfo : {WidgetSummary, FallbackSummary(<<"https://unreachable.invalid/">>)},
          img : SynthImages, gen : {GenFailure, GenText(<<"Sure!">>)}]

InitSynth == Parked /\ unit \in Invocations("generateWebsiteContent", SynthInputs)

CallSynth ==
    /\ unit.fn = "generateWebsiteContent" /\ ~unit.done
    /\ unit' = [unit EXCEPT !.done = TRUE,
                            !.ret = generateWebsiteContent(unit.args.productInfo,
                                                           unit.args.img, unit.args.gen)]
    /\ StayParked

SpecSynth == InitSynth /\ [][CallSynth]_vars

\* deployToNetlify
PublishInputs ==
    [html : {<<"<!DOCTYPE", " html>", "<html", "</html>">>, <<>>},
     name : {<<"w", "-", "0">>, <<"-", "1">>},
     token : BOOLEAN,
     site : {NetlifyNetworkError, NetlifyStatusError, NetlifyNotJson, NetlifyOk(FullSiteData),
             NetlifyOk(NoSiteData), NetlifyOk([FullSiteData EXCEPT !.ssl_url = Undefined])},
     deploy : {NetlifyNetworkError, NetlifyStatusError, NetlifyNotJson,
               NetlifyOk([NoSiteData EXCEPT !.id = <<"deploy-1">>])}]

InitPublish == Parked /\ unit \in Invocations("deployToNetlify", PublishInputs)

CallPublish ==
    /\ unit.fn = "deployToNetlify" /\ ~unit.done
    /\ unit' = [unit EXCEPT !.done = TRUE,
                            !.ret = deployToNetlify(unit.args.html, unit.args.name,
                                                    unit.args.token, unit.args.site,
                                                    unit.args.deploy)]
    /\ StayParked

SpecPublish == InitPublish /\ [][CallPublish]_vars

\* The slug of POST: titles mixing letters of both cases, digits, blanks and
\* punctuation, at any clock value.
TitleChars == {"W", "p", "7", " ", "-", "!"}

SlugInputs ==
    [title : SeqsUpTo(TitleChars, MaxTextLen) \ {<<>>}, t : 0..MaxClock]

InitSlug == Parked /\ unit \in Invocations("slug", SlugInputs)

CallSlug ==
    /\ unit.fn = "slug" /\ ~unit.done
    /\ unit' = [unit EXCEPT !.done = TRUE,
                            !.ret = Return(Slug(unit.args.title, unit.args.t), <<>>)]
    /\ StayParked

SpecSlug == InitSlug /\ [][CallSlug]_vars

(***************************************************************************)
(* Properties                                                              *)
(***************************************************************************)
\* The usage an account has on record: a missing counter counts as none.
RecordedUsage(user) == IF user.websiteCount = Missing THEN 0 ELSE user.websiteCount

\* The ceilings as the specification gives them.
StatedCeiling(plan) ==
    CASE plan = "basic" -> 3 [] plan = "pro" -> 10 [] plan = "enterprise" -> 999
      [] OTHER -> 3

Status(r) == requests[r].response.status

\* The request got past authentication, validation and the plan limit.
Admitted(r) ==
    \/ requests[r].pc \in {"analyzing", "synthesizing", "deploying", "persisting", "counting"}
    \/ requests[r].pc = "done" /\ \E k \in 1..Len(requests[r].calls) :
                                      requests[r].calls[k] = "page.get"

RecordsOf(r) == {i \in 1..Len(websites) : websites[i].id = r}

RecordsOwnedBy(a) == {i \in 1..Len(websites) : websites[i].userId = a}

\* C1: for any number of concurrent requests of one account, starting at or
\* below the ceiling, the usage counter and the number of records created for
\* the account never exceed the plan ceiling.
C1_UsageWithinCeiling ==
    \A a \in Accounts :
        /\ RecordedUsage(users[a]) <= StatedCeiling(users[a].plan)
        /\ Cardinality(RecordsOwnedBy(a)) <= StatedCeiling(users[a].plan)

\* C2: the gate admits a request iff the usage U it read is below the ceiling C
\* of the plan (basic 3, pro 10, enterprise 999); a request with U >= C is
\* answered 403 with currentCount = U and limit = C.
C2_QuotaGate ==
    \A r \in Requests :
        LET U == RecordedUsage(requests[r].user)
            C == StatedCeiling(requests[r].user.plan)
        IN  /\ Admitted(r) => U < C
            /\ Status(r) = 403 => /\ U >= C
                                  /\ requests[r].response.currentCount = U
                                  /\ requests[r].response.limit = C

C2_Witness ==
    \E r \in Requests :
        /\ Status(r) = 403
        /\ requests[r].user.plan = "basic"
        /\ requests[r].response.currentCount = 3
        /\ requests[r].response.limit = 3

\* C3: a request answered 401, 400 or 403 has stored no record, has made no
\* request to the merchant page, the image provider, the model or the hosting
\* provider, has not touched the usage counter, and the step that answers it
\* changes no store.
C3_RejectedLeavesNoTrace ==
    /\ [](\A r \in Requests :
            Status(r) \in {400, 401, 403} =>
                /\ RecordsOf(r) = {}
                /\ \A k \in 1..Len(requests[r].calls) :
                       requests[r].calls[k] = "db.users.findOne")
    /\ [][\A r \in Requests :
            (requests[r].pc # "done" /\ requests'[r].response.status \in {400, 401, 403})
                => /\ users' = users
                   /\ websites' = websites
                   /\ netlifySites' = netlifySites]_vars

C3_Witness ==
    \E r \in Requests :
        /\ Status(r) = 403
        /\ requests[r].calls = <<"db.users.findOne">>
        /\ websites = <<>>

\* C4: an admitted request ends with 200 and a stored record whatever the
\* merchant page, the image provider, the model and the hosting provider
\* answer; the only error it can end with is one thrown by the database.
C4_StagesNeverFail ==
    \A r \in Requests :
        (requests[r].pc = "done" /\ Admitted(r)) =>
            \/ Status(r) = 200 /\ RecordsOf(r) # {}
            \/ /\ Status(r) = 500
               /\ requests[r].logged \in {"connectToDatabase", "insertOne", "updateOne"}

\* Every dependency failed (page unreachable, image provider failing with its
\* key set, model unusable, hosting failing with its token set): still 200.
C4_Witness ==
    \E r \in Requests :
        /\ Status(r) = 200
        /\ env.unsplash /\ env.netlify
        /\ requests[r].response.website.title = PremiumProduct
        /\ requests[r].response.deployment.status = "local"
        /\ \E k \in 1..Len(requests[r].calls) : requests[r].calls[k] = "netlify.createSite"
        /\ \E i \in RecordsOf(r) :
              websites[i].html =
                  generateProfessionalTemplate(
                      websites[i].productInfo, <<>>,
                      generatePlaceholderImages(<<>>, 2), generatePlaceholderImages(<<>>, 1))

\* C5: every request ends with one of 200, 400, 401, 403, 500; 500 only when
\* a persistence operation (the connection, the record insert or the counter
\* increment) failed; 401 iff no account identity was resolved.
C5_StatusCauses ==
    \A r \in Requests :
        requests[r].pc = "done" =>
            /\ Status(r) \in {200, 400, 401, 403, 500}
            /\ Status(r) = 500 =>
                  requests[r].logged \in {"connectToDatabase", "insertOne", "updateOne"}
            /\ Status(r) = 401 <=> requests[r].user = NoUser

\* C6: getUnsplashImages(q, n) returns, without failing, exactly n images
\* whatever the provider does.
C6_ExactlyCount ==
    (unit.fn = "getUnsplashImages" /\ unit.done) =>
        /\ ~unit.ret.threw
        /\ Len(unit.ret.value) = unit.args.count

\* The document starts at a root marker somewhere: it holds "<!doctype" or
\* "<html", in any letter case.
HasRootMarker(doc) ==
    \E i \in 1..Len(doc) : doc[i] \in {"<!DOCTYPE", "<!doctype", "<html", "<HTML"}

\* The model gave nothing to use: the call failed, or its text holds no root marker.
Unusable(gen) == ~gen.ok \/ ~gen.hasText \/ ~HasRootMarker(gen.text)

\* The images the asset sourcer hands to one invocation of the synthesizer.
SourcedImages(args, slot) ==
    CASE slot = "hero" ->
            getUnsplashImages(args.productInfo.title \o <<" product lifestyle">>, 1,
                              args.img.key, args.img.hero).value
      [] slot = "feature" ->
            getUnsplashImages(args.productInfo.title \o <<" benefits features">>, 2,
                              args.img.key, args.img.feature).value
      [] slot = "testimonial" ->
            getUnsplashImages(<<"happy customer testimonial">>, 1,
                              args.img.key, args.img.testimonial).value

\* C7: generateWebsiteContent never fails and returns a document holding a
\* root marker; when the model output is unusable it returns the fallback
\* template built from the same summary and images.
C7_AlwaysADocument ==
    (unit.fn = "generateWebsiteContent" /\ unit.done) =>
        /\ ~unit.ret.threw
        /\ HasRootMarker(unit.ret.value)
        /\ Unusable(unit.args.gen) =>
              unit.ret.value =
                  generateProfessionalTemplate(unit.args.productInfo,
                                               SourcedImages(unit.args, "hero"),
                                               SourcedImages(unit.args, "feature"),
                                               SourcedImages(unit.args, "testimonial"))

\* The model answered with prose inside a code fence.
C7_Witness ==
    /\ unit.fn = "generateWebsiteContent" /\ unit.done
    /\ unit.args.gen = GenText(<<"FENCEhtml", "Sure!", "FENCE">>)
    /\ unit.ret.value[1] = "<!DOCTYPE"
    /\ Len(unit.ret.value) > 3

\* C8: analyzeProductURL returns, without throwing, a summary whose title has
\* 1..100 characters, description 1..200, price 1..20, and whose originalUrl is
\* the URL it was given, whatever the page fetch does.
C8_SummaryWithinLimits ==
    (unit.fn = "analyzeProductURL" /\ unit.done) =>
        /\ ~unit.ret.threw
        /\ unit.ret.value.title # Undefined
        /\ unit.ret.value.description # Undefined
        /\ unit.ret.value.price # Undefined
        /\ Len(unit.ret.value.title) \in 1..100
        /\ Len(unit.ret.value.description) \in 1..200
        /\ Len(unit.ret.value.price) \in 1..20
        /\ unit.ret.value.originalUrl = unit.args.url

\* An over-long title, no description anywhere, an over-long price.
C8_Witness ==
    /\ unit.fn = "analyzeProductURL" /\ unit.done
    /\ unit.args.resp.ok /\ unit.args.resp.readable
    /\ Len(unit.args.resp.page.titleTag) = 101
    /\ Len(unit.ret.value.title) = 100
    /\ unit.ret.value.description = GenericDescription
    /\ Len(unit.args.resp.page.testidPrice) = 21
    /\ Len(unit.ret.value.price) = 20

\* One of the two hosting requests did not succeed.
HostingCallFailed(resp) == resp.net = "error" \/ ~resp.ok

\* C9: deployToNetlify never throws; without a token it returns nothing and
\* makes no request; with a token it returns nothing when either request
\* fails, and a deployment only when both succeeded.
C9_PublishNeverThrows ==
    (unit.fn = "deployToNetlify" /\ unit.done) =>
        /\ ~unit.ret.threw
        /\ ~unit.args.token => unit.ret.value = NoDeployment /\ unit.ret.calls = <<>>
        /\ (unit.args.token /\ (HostingCallFailed(unit.args.site)
                                \/ HostingCallFailed(unit.args.deploy)))
              => unit.ret.value = NoDeployment
        /\ unit.ret.value.present =>
              /\ unit.args.token
              /\ ~HostingCallFailed(unit.args.site)
              /\ ~HostingCallFailed(unit.args.deploy)
              /\ unit.ret.value.url = Or(unit.args.site.data.ssl_url, unit.args.site.data.url)
              /\ unit.ret.value.site_id = unit.args.site.data.id
              /\ unit.ret.value.deploy_id = unit.args.deploy.data.id
              /\ unit.ret.value.admin_url = unit.args.site.data.admin_url

\* Provisioning succeeded and the content push failed.
C9_Witness ==
    /\ unit.fn = "deployToNetlify" /\ unit.done
    /\ unit.args.token
    /\ unit.args.site = NetlifyOk(FullSiteData)
    /\ unit.args.deploy = NetlifyStatusError
    /\ unit.ret.value = NoDeployment
    /\ unit.ret.calls = <<"netlify.createSite", "netlify.deploy">>

\* The URL under which the application itself serves a stored website.
InternalUrl(slug) == <<"https://affilify.eu", "/websites/">> \o slug

C11_NoPartialEffect ==
    \A r \in Requests : Status(r) = 500 => RecordsOf(r) = {}


\* The requests of an account that returned 200.
Completed(a) ==
    {r \in Requests : requests[r].pc = "done" /\ Status(r) = 200 /\ requests[r].user.id = a}

\* C12: the usage counter of an account changes only in the step in which a
\* request whose record is stored returns 200, and then by exactly one, so the
\* counter minus the number of requests that returned 200 never changes: no
\* increment is lost and the final counter is the initial one plus the 200s.
C12_AtomicIncrement ==
    [][\A a \in Accounts :
          /\ users'[a].plan = users[a].plan
          /\ users'[a] # users[a] =>
                \E r \in Requests :
                    /\ requests[r].pc = "counting" /\ requests[r].user.id = a
                    /\ RecordsOf(r) # {}
                    /\ requests'[r].pc = "done" /\ requests'[r].response.status = 200
                    /\ RecordedUsage(users'[a]) = RecordedUsage(users[a]) + 1
          /\ RecordedUsage(users'[a]) - Cardinality(Completed(a)')
                = RecordedUsage(users[a]) - Cardinality(Completed(a))]_vars

\* Two requests of one account read the same usage and both returned 200.
C12_Witness ==
    \E r1, r2 \in Requests :
        /\ r1 # r2
        /\ r1 \in Completed("u1") /\ r2 \in Completed("u1")
        /\ requests[r1].user.websiteCount = requests[r2].user.websiteCount
        /\ RecordedUsage(users["u1"]) = RecordedUsage(requests[r1].user) + 2


\* The text `part` occurs in the document.
Contains(doc, part) ==
    \E i \in 1..(Len(doc) - Len(part) + 1) : SubSeq(doc, i, i + Len(part) - 1) = part

\* C13: when the model call fails, generateWebsiteContent returns the
\* fallback template, and that document holds the product title and the URL
\* of every image the asset sourcer returned for the hero, feature and
\* testimonial slots.
C13_TemplateHoldsImages ==
    (unit.fn = "generateWebsiteContent" /\ unit.done /\ ~unit.args.gen.ok) =>
        /\ ~unit.ret.threw
        /\ unit.ret.value =
              generateProfessionalTemplate(unit.args.productInfo,
                                           SourcedImages(unit.args, "hero"),
                                           SourcedImages(unit.args, "feature"),
                                           SourcedImages(unit.args, "testimonial"))
        /\ Contains(unit.ret.value, unit.args.productInfo.title)
        /\ \A slot \in {"hero", "feature", "testimonial"} :
              \A i \in 1..Len(SourcedImages(unit.args, slot)) :
                  Contains(unit.ret.value, SourcedImages(unit.args, slot)[i].url)


\* C14: a 200 response reports remainingWebsites = ceiling - usage - 1, with
\* the usage the request read at the plan-limit check, and the value lies
\* between 0 and ceiling - 1.
C14_RemainingWebsites ==
    \A r \in Requests :
        Status(r) = 200 =>
            /\ requests[r].response.remainingWebsites =
                  StatedCeiling(requests[r].user.plan) - RecordedUsage(requests[r].user) - 1
            /\ requests[r].response.remainingWebsites
                  \in 0..(StatedCeiling(requests[r].user.plan) - 1)

\* A basic account with usage 0 is told that 2 websites remain.
C14_Witness ==
    \E r \in Requests :
        /\ Status(r) = 200
        /\ requests[r].user.plan = "basic" /\ requests[r].user.websiteCount = 0
        /\ requests[r].response.remainingWebsites = 2


\* C15: if every external call returns or fails, every request that was
\* started ends with a response; no stage loops or waits.
C15_RequestsTerminate ==
    \A r \in Requests :
        (requests[r].pc = "start") ~>
            (requests[r].pc = "done" /\ Status(r) \in {200, 400, 401, 403, 500})

\* A request went through every stage and ended in the error response at the last call.
C15_Witness ==
    \E r \in Requests :
        /\ requests[r].pc = "done" /\ Status(r) = 500
        /\ requests[r].logged = "updateOne"
        /\ Len(requests[r].calls) >= 4


\* C16: every document generateWebsiteContent returns starts with a
\* document-type or root marker, also when the model wrapped its document in
\* explanatory text or code fences.
C16_StartsWithMarker ==
    (unit.fn = "generateWebsiteContent" /\ unit.done) =>
        /\ ~unit.ret.threw
        /\ Len(unit.ret.value) > 0
        /\ unit.ret.value[1] \in {"<!DOCTYPE", "<!doctype", "<html", "<HTML"}


\* The position of a request in the handler, in the order of the code.
StageRank(pc) ==
    CASE pc = "start" -> 0 [] pc = "body" -> 1 [] pc = "analyzing" -> 2
      [] pc = "synthesizing" -> 3 [] pc = "deploying" -> 4 [] pc = "persisting" -> 5
      [] pc = "counting" -> 6 [] pc = "done" -> 7 [] OTHER -> 8

\* The stage to which an external call belongs.
CallRank(call) ==
    CASE call = "db.users.findOne" -> 0 [] call = "page.get" -> 2
      [] call = "unsplash.search" -> 3 [] call = "gemini.generateContent" -> 3
      [] call = "netlify.createSite" -> 4 [] call = "netlify.deploy" -> 4
      [] call = "db.websites.insertOne" -> 5 [] call = "db.users.updateOne" -> 6
      [] OTHER -> 8

TimesCalled(r, call) ==
    Cardinality({k \in 1..Len(requests[r].calls) : requests[r].calls[k] = call})

\* C17: a request enters the stages one after the other, in the order
\* analyzing, synthesizing, deploying, persisting, only once authenticated,
\* validated and admitted; it leaves a stage to the next one or to its
\* response and never comes back; its calls follow the order of the stages and
\* the page fetch, the model call, the provisioning call, the content push,
\* the insert and the increment are each made at most once.
C17_StagesInOrder ==
    /\ [](\A r \in Requests :
            /\ StageRank(requests[r].pc) \in 2..6 =>
                  /\ requests[r].user # NoUser
                  /\ Truthy(requests[r].productUrl)
                  /\ ~LimitReached(requests[r].user)
            /\ \A k \in 1..(Len(requests[r].calls) - 1) :
                  CallRank(requests[r].calls[k]) <= CallRank(requests[r].calls[k + 1])
            /\ \A call \in {"page.get", "gemini.generateContent", "netlify.createSite",
                            "netlify.deploy", "db.websites.insertOne",
                            "db.users.updateOne"} : TimesCalled(r, call) <= 1
            /\ TimesCalled(r, "unsplash.search") <= 3)
    /\ [][\A r \in Requests :
            requests'[r].pc # requests[r].pc =>
                \/ StageRank(requests'[r].pc) = StageRank(requests[r].pc) + 1
                \/ requests'[r].pc = "done"]_vars

\* A request that went through all four stages, making each call once.
C17_Witness ==
    \E r \in Requests :
        /\ requests[r].pc = "done" /\ Status(r) = 200
        /\ requests[r].calls =
              <<"db.users.findOne", "page.get", "unsplash.search", "unsplash.search",
                "unsplash.search", "gemini.generateContent", "netlify.createSite",
                "netlify.deploy", "db.websites.insertOne", "db.users.updateOne">>


\* C18: with the requests of one account in flight together, and a counter
\* that starts at or below the ceiling, the counter never exceeds the ceiling
\* by more than the number of requests less one; two requests that both read
\* the last free slot leave it exactly one above the ceiling.
C18_OvershootBounded ==
    \A a \in Accounts :
        RecordedUsage(users[a]) <= StatedCeiling(users[a].plan) + NumRequests - 1

\* Two requests read usage 2 of a basic account, and the counter ends at 4.
C18_Witness ==
    /\ users["u1"].plan = "basic"
    /\ users["u1"].websiteCount = StatedCeiling("basic") + 1
    /\ \E r1, r2 \in Requests :
          /\ r1 # r2
          /\ Status(r1) = 200 /\ Status(r2) = 200
          /\ requests[r1].user.id = "u1" /\ requests[r2].user.id = "u1"
          /\ requests[r1].user.websiteCount = StatedCeiling("basic") - 1
          /\ requests[r2].user.websiteCount = StatedCeiling("basic") - 1


\* C19: no two stored website records have the same slug, and the slug in a
\* 200 response is the slug of the record stored by that request.
C19_SlugsUnique ==
    /\ \A i, j \in 1..Len(websites) : i # j => websites[i].slug # websites[j].slug
    /\ \A r \in Requests :
          Status(r) = 200 =>
              \A i \in RecordsOf(r) : websites[i].slug = requests[r].response.website.slug


\* The fetch of the page succeeded and its body could be read.
Fetched(resp) == resp.net = "ok" /\ resp.ok /\ resp.readable

\* The first text of a list that is not empty, else the literal.
FirstNonEmpty(texts, literal) ==
    IF \E i \in 1..Len(texts) : Truthy(texts[i])
    THEN texts[CHOOSE i \in 1..Len(texts) :
                   Truthy(texts[i]) /\ \A j \in 1..(i - 1) : ~Truthy(texts[j])]
    ELSE literal

\* C20: on a fetched page the title is the first non-empty of the dedicated
\* title attribute, the first heading and the <title> tag, in this order, else
\* the generic literal (cut to 100 characters); on a failed fetch the fixed
\* fallback summary is returned with the original URL.
C20_TitleStrategyOrder ==
    (unit.fn = "analyzeProductURL" /\ unit.done) =>
        IF Fetched(unit.args.resp)
        THEN LET page == unit.args.resp.page
                 first == FirstNonEmpty(<<page.testidTitle, page.h1, page.titleTag>>,
                                        <<"A", "m", "a", "z", "i", "n", "g", " ",
                                          "P", "r", "o", "d", "u", "c", "t">>)
             IN  unit.ret.value.title = SubSeq(first, 1, Min(Len(first), 100))
        ELSE /\ unit.ret.value.title = <<"P", "r", "e", "m", "i", "u", "m", " ",
                                         "P", "r", "o", "d", "u", "c", "t">>
             /\ unit.ret.value.price = <<"$", "9", "9", ".", "9", "9">>
             /\ unit.ret.value.originalUrl = unit.args.url


Pushed == {r \in Requests : TimesCalled(r, "netlify.deploy") > 0}

\* C22: content is pushed only to a hosting target that was provisioned, at
\* most once and after a single provisioning call; a hosting target once
\* created stays, whatever the push answers; and a request leaves the
\* deploying stage for the persisting stage only, with or without a deployment.
C22_PushAfterProvision ==
    /\ [](/\ Len(netlifySites) >= Cardinality(Pushed)
          /\ \A r \in Requests :
                /\ TimesCalled(r, "netlify.createSite") <= 1
                /\ TimesCalled(r, "netlify.deploy") <= TimesCalled(r, "netlify.createSite")
                /\ (r \in Pushed /\ requests[r].pc \in {"persisting", "counting"}) =>
                      \E i \in 1..Len(netlifySites) : netlifySites[i] = requests[r].slug)
    /\ [][/\ Len(netlifySites') >= Len(netlifySites)
          /\ SubSeq(netlifySites', 1, Len(netlifySites)) = netlifySites
          /\ \A r \in Requests :
                (requests[r].pc = "deploying" /\ requests'[r].pc # "deploying") =>
                    requests'[r].pc = "persisting"]_vars

\* The hosting target was provisioned, the push failed: the request goes on
\* to store its record without a deployment, and the hosting target remains.
C22_Witness ==
    \E r \in Requests :
        /\ requests[r].pc = "persisting"
        /\ TimesCalled(r, "netlify.createSite") = 1 /\ TimesCalled(r, "netlify.deploy") = 1
        /\ ~requests[r].netlifyDeployment.present
        /\ netlifySites = <<requests[r].slug>>


\* C23: in the step that produces a 200 response, the remainingWebsites it
\* reports is the plan ceiling minus the usage counter stored for the account
\* after that step.
C23_RemainingIsReal ==
    [][\A r \in Requests :
          (requests[r].pc # "done" /\ requests'[r].pc = "done"
              /\ requests'[r].response.status = 200) =>
                requests'[r].response.remainingWebsites =
                    StatedCeiling(users'[requests[r].user.id].plan)
                        - RecordedUsage(users'[requests[r].user.id])]_vars


\* C24: every stored record was created by a request that was authenticated,
\* had a productUrl and was under its plan limit; a request creates at most
\* one; the record has views 0, clicks 0, isActive true and belongs to the
\* account of its request; records are only ever added, never removed or changed.
C24_RecordsWellFormed ==
    /\ [](/\ \A r \in Requests : Cardinality(RecordsOf(r)) <= 1
          /\ \A i \in 1..Len(websites) :
                LET req == requests[websites[i].id]
                IN  /\ websites[i].id \in Requests
                    /\ Admitted(websites[i].id)
                    /\ req.user # NoUser
                    /\ Truthy(req.productUrl)
                    /\ ~LimitReached(req.user)
                    /\ websites[i].userId = req.user.id
                    /\ websites[i].userId \in Accounts
                    /\ websites[i].views = 0 /\ websites[i].clicks = 0
                    /\ websites[i].isActive = TRUE)
    /\ [][/\ Len(websites') >= Len(websites)
          /\ SubSeq(websites', 1, Len(websites)) = websites]_vars

\* Two requests of one account each stored one record.
C24_Witness ==
    /\ Len(websites) = 2
    /\ websites[1].id # websites[2].id
    /\ websites[1].userId = "u1" /\ websites[2].userId = "u1"
    /\ websites[2].views = 0 /\ websites[2].isActive = TRUE


\* Lower-case letters and digits.
Alphanumeric == {LowerChars[i] : i \in 1..Len(LowerChars)} \cup Digits

\* The lower-cased text with every maximal run of other characters replaced
\* by one separator.
RECURSIVE CollapseRuns(_)
CollapseRuns(s) ==
    IF s = <<>> THEN <<>>
    ELSE LET rest == CollapseRuns(Tail(s))
             c == LowerAtom(Head(s))
         IN  IF c \in Alphanumeric THEN <<c>> \o rest
             ELSE IF rest # <<>> /\ Head(rest) = "-" THEN rest
             ELSE <<"-">> \o rest

\* C25: the slug is the normalized title, a separator and the timestamp,
\* the normalized title being the lower-cased title with each maximal run of
\* non-alphanumeric characters collapsed to one separator; so the title part
\* holds only lower-case letters, digits and separators, never two separators
\* in a row.
C25_SlugNormalised ==
    (unit.fn = "slug" /\ unit.done) =>
        LET slug == unit.ret.value
            n == Len(unit.ret.value) - 2
        IN  /\ slug = CollapseRuns(unit.args.title) \o <<"-", ToString(unit.args.t)>>
            /\ \A i \in 1..n : slug[i] \in Alphanumeric \cup {"-"}
            /\ \A i \in 1..(n - 1) : ~(slug[i] = "-" /\ slug[i + 1] = "-")

====
